---- MODULE Spec2Model ----
(***************************************************************************)
(* Model of the tauri-typegen example backends (ts/ and zod/ crates):      *)
(* the serde/validator declarations of models.rs and the command handlers  *)
(* of commands.rs, driven by a front end that invokes one command at a     *)
(* time.  The handlers share no state, so a call's behaviour does not      *)
(* depend on the calls around it.                                          *)
(***************************************************************************)
EXTENDS Integers, Sequences, FiniteSets, TLC

(***************************************************************************)
(* Identifiers are sequences of one-character strings, so that the serde   *)
(* case conversions can be computed character by character.                *)
(***************************************************************************)
Lower == <<"a","b","c","d","e","f","g","h","i","j","k","l","m",
           "n","o","p","q","r","s","t","u","v","w","x","y","z">>

Upper == <<"A","B","C","D","E","F","G","H","I","J","K","L","M",
           "N","O","P","Q","R","S","T","U","V","W","X","Y","Z">>

IsUpper(c) == \E k \in 1..26 : Upper[k] = c

IsLower(c) == \E k \in 1..26 : Lower[k] = c

ToUpper(c) == IF IsLower(c) THEN Upper[CHOOSE k \in 1..26 : Lower[k] = c] ELSE c

ToLower(c) == IF IsUpper(c) THEN Lower[CHOOSE k \in 1..26 : Upper[k] = c] ELSE c

RECURSIVE Join(_)
Join(cs) == IF cs = <<>> THEN "" ELSE Head(cs) \o Join(Tail(cs))

(* serde RenameRule::apply_to_field: the declared name is snake_case. *)
RECURSIVE PascalOfSnake(_, _)
PascalOfSnake(cs, capitalize) ==
    IF cs = <<>> THEN <<>>
    ELSE IF Head(cs) = "_" THEN PascalOfSnake(Tail(cs), TRUE)
    ELSE IF capitalize THEN <<ToUpper(Head(cs))>> \o PascalOfSnake(Tail(cs), FALSE)
    ELSE <<Head(cs)>> \o PascalOfSnake(Tail(cs), FALSE)

LowerFirst(cs) == IF cs = <<>> THEN <<>> ELSE <<ToLower(Head(cs))>> \o Tail(cs)

UpperAll(cs) == [k \in 1..Len(cs) |-> ToUpper(cs[k])]

(* serde RenameRule::apply_to_variant: the declared name is PascalCase. *)
RECURSIVE SnakeOfPascal(_, _)
SnakeOfPascal(cs, first) ==
    IF cs = <<>> THEN <<>>
    ELSE (IF IsUpper(Head(cs)) /\ ~first THEN <<"_">> ELSE <<>>)
         \o <<ToLower(Head(cs))>> \o SnakeOfPascal(Tail(cs), FALSE)

ApplyToField(rule, cs) ==
    CASE rule = "camelCase" -> LowerFirst(PascalOfSnake(cs, TRUE))
      [] rule = "SCREAMING_SNAKE_CASE" -> UpperAll(cs)
      [] OTHER -> cs

ApplyToVariant(rule, cs) ==
    CASE rule = "camelCase" -> LowerFirst(cs)
      [] rule = "SCREAMING_SNAKE_CASE" -> UpperAll(SnakeOfPascal(cs, TRUE))
      [] OTHER -> cs

(***************************************************************************)
(* The declarations of models.rs.  A member is [name, rename, skip, ty]:   *)
(* rename = "" when the member has no #[serde(rename)].                    *)
(***************************************************************************)
Member(name, rename, skip, ty) ==
    [name |-> name, rename |-> rename, skip |-> skip, ty |-> ty]

(* User with the #[serde(skip)] on internal_field left out. *)
UserWithoutSkip ==
    [kind |-> "struct", rename_all |-> "camelCase", members |-> <<
        Member(<<"u","s","e","r","_","i","d">>, "", FALSE, "i32"),
        Member(<<"u","s","e","r","_","n","a","m","e">>, "", FALSE, "String"),
        Member(<<"e","m","a","i","l">>, "", FALSE, "String"),
        Member(<<"i","s","_","a","c","t","i","v","e">>, "", FALSE, "bool"),
        Member(<<"i","n","t","e","r","n","a","l","_","f","i","e","l","d">>, "", FALSE, "String") >>]

User ==
    [kind |-> "struct", rename_all |-> "camelCase", members |-> <<
        Member(<<"u","s","e","r","_","i","d">>, "", FALSE, "i32"),
        Member(<<"u","s","e","r","_","n","a","m","e">>, "", FALSE, "String"),
        Member(<<"e","m","a","i","l">>, "", FALSE, "String"),
        Member(<<"i","s","_","a","c","t","i","v","e">>, "", FALSE, "bool"),
        Member(<<"i","n","t","e","r","n","a","l","_","f","i","e","l","d">>, "", TRUE, "String") >>]

Product ==
    [kind |-> "struct", rename_all |-> "", members |-> <<
        Member(<<"i","d">>, "productId", FALSE, "i32"),
        Member(<<"n","a","m","e">>, "", FALSE, "String"),
        Member(<<"p","r","i","c","e">>, "", FALSE, "f64"),
        Member(<<"i","n","_","s","t","o","c","k">>, "", FALSE, "Option<bool>") >>]

OrderStatus ==
    [kind |-> "enum", rename_all |-> "SCREAMING_SNAKE_CASE", members |-> <<
        Member(<<"P","e","n","d","i","n","g">>, "", FALSE, ""),
        Member(<<"P","r","o","c","e","s","s","i","n","g">>, "", FALSE, ""),
        Member(<<"S","h","i","p","p","e","d">>, "", FALSE, ""),
        Member(<<"D","e","l","i","v","e","r","e","d">>, "", FALSE, ""),
        Member(<<"C","a","n","c","e","l","l","e","d">>, "", FALSE, "") >>]

PaymentMethod ==
    [kind |-> "enum", rename_all |-> "", members |-> <<
        Member(<<"C","r","e","d","i","t","C","a","r","d">>, "credit_card", FALSE, ""),
        Member(<<"P","a","y","P","a","l">>, "paypal", FALSE, ""),
        Member(<<"B","a","n","k","T","r","a","n","s","f","e","r">>, "bank_transfer", FALSE, "") >>]

Order ==
    [kind |-> "struct", rename_all |-> "camelCase", members |-> <<
        Member(<<"o","r","d","e","r","_","i","d">>, "", FALSE, "String"),
        Member(<<"u","s","e","r">>, "", FALSE, "User"),
        Member(<<"p","r","o","d","u","c","t","s">>, "", FALSE, "Vec<Product>"),
        Member(<<"s","t","a","t","u","s">>, "", FALSE, "OrderStatus"),
        Member(<<"p","a","y","m","e","n","t","_","m","e","t","h","o","d">>, "", FALSE, "PaymentMethod"),
        Member(<<"t","o","t","a","l","_","a","m","o","u","n","t">>, "", FALSE, "f64") >>]

Settings ==
    [kind |-> "struct", rename_all |-> "camelCase", members |-> <<
        Member(<<"a","p","p","_","n","a","m","e">>, "", FALSE, "String"),
        Member(<<"v","e","r","s","i","o","n">>, "", FALSE, "String"),
        Member(<<"f","e","a","t","u","r","e","s">>, "", FALSE, "HashMap<String, bool>"),
        Member(<<"t","h","e","m","e">>, "", FALSE, "Option<String>") >>]

ProgressUpdate ==
    [kind |-> "struct", rename_all |-> "camelCase", members |-> <<
        Member(<<"t","a","s","k","_","i","d">>, "", FALSE, "String"),
        Member(<<"p","r","o","g","r","e","s","s">>, "", FALSE, "f64"),
        Member(<<"m","e","s","s","a","g","e">>, "", FALSE, "String") >>]

LogEntry ==
    [kind |-> "struct", rename_all |-> "camelCase", members |-> <<
        Member(<<"t","i","m","e","s","t","a","m","p">>, "", FALSE, "i64"),
        Member(<<"l","e","v","e","l">>, "", FALSE, "String"),
        Member(<<"m","e","s","s","a","g","e">>, "", FALSE, "String") >>]

TypeNames ==
    {"User", "Product", "OrderStatus", "PaymentMethod",
     "Order", "Settings", "ProgressUpdate", "LogEntry"}

(* Both crates declare the same types with the same serde attributes;       *)
(* the zod crate adds #[validate] attributes, which do not affect naming.   *)
Crates == {"ts", "zod"}

Decl(crate, t) ==
    CASE t = "User" -> User
      [] t = "Product" -> Product
      [] t = "OrderStatus" -> OrderStatus
      [] t = "PaymentMethod" -> PaymentMethod
      [] t = "Order" -> Order
      [] t = "Settings" -> Settings
      [] t = "ProgressUpdate" -> ProgressUpdate
      [] t = "LogEntry" -> LogEntry

(* ExternalName with the container's convention applied even to a member  *)
(* that carries a rename override.                                         *)
ExternalNameConventionOnly(d, m) ==
    IF d.kind = "enum" THEN Join(ApplyToVariant(d.rename_all, m.name))
    ELSE Join(ApplyToField(d.rename_all, m.name))

(* The effective external name of member m of declaration d. *)
ExternalName(d, m) ==
    IF m.rename # "" THEN m.rename
    ELSE IF d.kind = "enum" THEN Join(ApplyToVariant(d.rename_all, m.name))
    ELSE Join(ApplyToField(d.rename_all, m.name))

(* The external names a declaration exposes, in declared order. *)
ExternalNames(d) ==
    LET kept == SelectSeq(d.members, LAMBDA m : ~m.skip)
    IN  [k \in 1..Len(kept) |-> ExternalName(d, kept[k])]

(***************************************************************************)
(* Values.  A struct value is a record keyed by the declared member names, *)
(* an enum value is the declared variant name, Option<T> is <<>> (None) or *)
(* <<v>> (Some), Vec<T> is a sequence.  An f64 is represented by the       *)
(* number of hundredths it holds (0.01 is 1, 29.99 is 2999).               *)
(***************************************************************************)
Range(f) == {f[k] : k \in DOMAIN f}

IsDeclared(t) == t \in TypeNames

(* What the derived impls of a declared type know of each member: the key  *)
(* of the value's record, the external name, the skip flag and the type.   *)
Schema ==
    [t \in TypeNames |->
        LET d == Decl("zod", t)
        IN  [kind |-> d.kind,
             members |-> {[key |-> Join(m.name), ext |-> ExternalName(d, m),
                           skip |-> m.skip, ty |-> m.ty] : m \in Range(d.members)}]]

(* serde::Serialize as derived: skipped members are left out, the others   *)
(* appear under their external names; a unit variant becomes its tag.      *)
RECURSIVE Serialize(_, _)
Serialize(ty, v) ==
    IF ty = "Vec<Product>" THEN [k \in 1..Len(v) |-> Serialize("Product", v[k])]
    ELSE IF ~IsDeclared(ty) THEN v
    ELSE IF Schema[ty].kind = "enum"
    THEN (CHOOSE m \in Schema[ty].members : m.key = v).ext
    ELSE LET kept == {m \in Schema[ty].members : ~m.skip}
         IN  [n \in {m.ext : m \in kept} |->
                LET m == CHOOSE m \in kept : m.ext = n
                IN  Serialize(m.ty, v[m.key])]

IsOption(ty) == ty \in {"Option<bool>", "Option<String>"}

(* serde::Deserialize as derived accepts a record when every member that   *)
(* is neither skipped nor an Option is present under its external name     *)
(* (unknown members are ignored) and every enum tag names a variant.       *)
RECURSIVE Deserializable(_, _)
Deserializable(ty, w) ==
    IF ty = "Vec<Product>" THEN \A k \in 1..Len(w) : Deserializable("Product", w[k])
    ELSE IF ~IsDeclared(ty) THEN TRUE
    ELSE IF Schema[ty].kind = "enum"
    THEN \E m \in Schema[ty].members : m.ext = w
    ELSE \A m \in Schema[ty].members :
            \/ m.skip
            \/ IsOption(m.ty) /\ m.ext \notin DOMAIN w
            \/ m.ext \in DOMAIN w /\ Deserializable(m.ty, w[m.ext])

(* Default::default() of a skipped or absent member's type. *)
Default(ty) == IF IsOption(ty) THEN <<>> ELSE ""

RECURSIVE Deserialize(_, _)
Deserialize(ty, w) ==
    IF ty = "Vec<Product>" THEN [k \in 1..Len(w) |-> Deserialize("Product", w[k])]
    ELSE IF ~IsDeclared(ty) THEN w
    ELSE IF Schema[ty].kind = "enum"
    THEN (CHOOSE m \in Schema[ty].members : m.ext = w).key
    ELSE [n \in {m.key : m \in Schema[ty].members} |->
            LET m == CHOOSE m \in Schema[ty].members : m.key = n
            IN  IF m.skip \/ m.ext \notin DOMAIN w THEN Default(m.ty)
                ELSE Deserialize(m.ty, w[m.ext])]

(***************************************************************************)
(* validator::Validate as derived in the zod crate.  A failure is the      *)
(* member it was found on with the attribute's message; validate() visits  *)
(* every member carrying a #[validate(...)] attribute and returns all the  *)
(* failures found.  A member with no such attribute is not visited.        *)
(***************************************************************************)
Failure(field, message) == [field |-> field, message |-> message]

Check(holds, field, message) == IF holds THEN {} ELSE {Failure(field, message)}

(* #[validate(email)] on the sample addresses the front end supplies: the  *)
(* address grammar requires a local part, an "@" and a domain.             *)
ValidateEmail(s) == s \in {"john@example.com", "a@b.co"}

ValidateUser(u) ==
    Check(u.user_id >= 1, "user_id", "User ID must be positive")
    \cup Check(Len(u.user_name) >= 3 /\ Len(u.user_name) <= 50,
               "user_name", "Username must be 3-50 characters")
    \cup Check(ValidateEmail(u.email), "email", "Must be a valid email address")

ValidateProduct(p) ==
    Check(p.id >= 1, "id", "Product ID must be positive")
    \cup Check(Len(p.name) >= 1 /\ Len(p.name) <= 100,
               "name", "Product name must be 1-100 characters")
    \cup Check(p.price >= 1, "price", "Price must be greater than 0")

ValidateOrder(o) ==
    Check(Len(o.order_id) >= 1, "order_id", "Order ID cannot be empty")
    \cup Check(Len(o.products) >= 1,
               "products", "Order must contain at least one product")
    \cup Check(o.total_amount >= 1, "total_amount", "Total amount must be positive")

(***************************************************************************)
(* The command handlers of commands.rs.  Result<T, String> is a record     *)
(* with exactly one arm.                                                   *)
(***************************************************************************)
Ok(v) == [arm |-> "Ok", value |-> v]

Err(m) == [arm |-> "Err", message |-> m]

get_user(user_id) ==
    [user_id |-> user_id,
     user_name |-> "John Doe",
     email |-> "john@example.com",
     is_active |-> TRUE,
     internal_field |-> "This field is skipped in serialization"]

create_user(user) ==
    IF Len(user.user_name) = 0 THEN Err("Username cannot be empty")
    ELSE Ok(user)

(* `limit as usize` on a 64-bit target: the i32 is sign-extended to 64     *)
(* bits and reinterpreted.  A usize is four 16-bit limbs, least            *)
(* significant first.                                                      *)
Limb == 65536

(* AsUsize as a saturating conversion: a negative value becomes 0. *)
AsUsizeSaturating(n) ==
    IF n < 0 THEN <<0, 0, 0, 0>> ELSE <<n % Limb, (n \div Limb) % Limb, 0, 0>>

AsUsize(n) ==
    <<n % Limb, (n \div Limb) % Limb,
      IF n < 0 THEN Limb - 1 ELSE 0, IF n < 0 THEN Limb - 1 ELSE 0>>

(* Iterator::take(n).collect() *)
Take(xs, n) ==
    IF n[2] # 0 \/ n[3] # 0 \/ n[4] # 0 \/ n[1] >= Len(xs) THEN xs
    ELSE SubSeq(xs, 1, n[1])

UnwrapOr(opt, d) == IF opt = <<>> THEN d ELSE opt[1]

search_products(query, limit) ==
    LET lim == UnwrapOr(limit, 10)
    IN  Take(<< [id |-> 1,
                 name |-> "Product matching '" \o query \o "'",
                 price |-> 2999,
                 in_stock |-> <<TRUE>>],
                [id |-> 2,
                 name |-> "Another product for '" \o query \o "'",
                 price |-> 4999,
                 in_stock |-> <<FALSE>>] >>,
             AsUsize(lim))

update_order_status(order_id, status) ==
    Ok("Order " \o order_id \o " updated to " \o status)

create_order(order) ==
    IF Len(order.products) = 0 THEN Err("Order must contain at least one product")
    ELSE Ok(order)

(* The f64 arguments of divide: a finite value is its sign and its         *)
(* magnitude in hundredths (so -0.0 and 0.0 are distinct values), and NaN  *)
(* is a value that equals nothing.                                         *)
Finite(neg, mag) == [class |-> "finite", neg |-> neg, mag |-> mag]

NaN == [class |-> "nan", neg |-> FALSE, mag |-> 0]

F64Eq(a, b) ==
    /\ a.class = "finite"
    /\ b.class = "finite"
    /\ a.mag = b.mag
    /\ (a.mag = 0 \/ a.neg = b.neg)

(* divide with the test made on the dividend. *)
divideTestingDividend(a, b) ==
    IF F64Eq(a, Finite(FALSE, 0)) THEN Err("Division by zero")
    ELSE Ok([dividend |-> a, divisor |-> b])

(* The quotient is kept as the pair it is taken of. *)
divide(a, b) ==
    IF F64Eq(b, Finite(FALSE, 0)) THEN Err("Division by zero")
    ELSE Ok([dividend |-> a, divisor |-> b])

(* stream_logs builds entry i of its loop; `timestamp` is the clock read. *)
LogLevel(i) ==
    IF i % 3 = 0 THEN "ERROR" ELSE IF i % 2 = 0 THEN "WARN" ELSE "INFO"

(* LogEntryOf numbering the entries from the last round down. *)
LogEntryOfCountingDown(i, timestamp) ==
    [timestamp |-> timestamp,
     level |-> LogLevel(i),
     message |-> "Log message #" \o ToString(11 - i)]

LogEntryOf(i, timestamp) ==
    [timestamp |-> timestamp,
     level |-> LogLevel(i),
     message |-> "Log message #" \o ToString(i)]

(* monitor_system's samples for round i, in hundredths. *)
Cpu(i) == 2000 + i * 1000

Memory(i) == 5000 + i * 500

(* process_task's payload for step i. *)
ProgressOf(task_id, i) ==
    [task_id |-> task_id,
     progress |-> (i * 10000) \div 5,
     message |-> "Processing step " \o ToString(i) \o "/5"]

LogRounds == 10

MonitorRounds == 5

TaskSteps == 5

(***************************************************************************)
(* Inputs the front end supplies.                                          *)
(***************************************************************************)
MaxProducts == 2

MaxClock == 1

UserSamples ==
    [user_id : {0, 1},
     user_name : {"", "Jo", "John Doe"},
     email : {"john@example.com", "john.example.com"},
     is_active : {TRUE},
     internal_field : {""}]

ProductSamples ==
    {[id |-> 1, name |-> "Widget", price |-> 2999, in_stock |-> <<TRUE>>],
     [id |-> 0, name |-> "Widget", price |-> 2999, in_stock |-> <<TRUE>>],
     [id |-> 1, name |-> "", price |-> 2999, in_stock |-> <<FALSE>>],
     [id |-> 1, name |-> "Widget", price |-> 0, in_stock |-> <<TRUE>>],
     [id |-> 2, name |-> "Gadget", price |-> 4999, in_stock |-> <<>>]}

ProductLists ==
    UNION {[1..n -> ProductSamples] : n \in 0..MaxProducts}

OrderUsers ==
    {u \in UserSamples :
        Cardinality({u.user_id} \cap {0}) + Cardinality({u.user_name} \cap {"", "Jo"})
        + Cardinality({u.email} \cap {"john.example.com"}) <= 1}

OrderSamples ==
    {[order_id |-> oid, user |-> u, products |-> ps, status |-> sp[1],
      payment_method |-> sp[2], total_amount |-> amt] :
        oid \in {"", "ORD-1"}, u \in OrderUsers, ps \in ProductLists,
        sp \in {<<"Pending", "CreditCard">>, <<"Shipped", "PayPal">>,
                <<"Cancelled", "BankTransfer">>},
        amt \in {0, 2999}}

(* A record as the front end may send it: with a member left out, or with  *)
(* a member the declaration does not know.                                 *)
Without(w, n) == [k \in DOMAIN w \ {n} |-> w[k]]

With(w, n, v) == [k \in DOMAIN w \cup {n} |-> IF k = n THEN v ELSE w[k]]

UserWires ==
    LET ws == {Serialize("User", u) : u \in UserSamples}
    IN  ws
        \cup {With(w, "internalField", "set by the front end") : w \in ws}
        \cup {Without(w, "email") : w \in ws}
        \cup {[user_id |-> 1, user_name |-> "John Doe",
               email |-> "john@example.com", is_active |-> TRUE]}

OrderWires == {Serialize("Order", o) : o \in OrderSamples}

StatusTags ==
    {"PENDING", "PROCESSING", "SHIPPED", "DELIVERED", "CANCELLED", "Pending", "pending"}

Limits ==
    {<<>>} \cup {<<n>> : n \in {-2147483647 - 1, -65536, -1, 0, 1, 2, 3, 10, 65536, 2147483647}}

Queries == {"", "lamp"}

DivideInputs ==
    {Finite(FALSE, 0), Finite(TRUE, 0), Finite(FALSE, 100), Finite(TRUE, 100),
     Finite(FALSE, 250), NaN}

TaskIds == {"", "task-1"}

(* What Error::to_string() may read when a send or an emit fails. *)
SendErrors == {"channel closed", "webview not found"}

Channels == {"channel", "cpu_channel", "memory_channel"}

ChannelsOf(c) ==
    CASE c = "stream_logs" -> {"channel"}
      [] c = "monitor_system" -> {"cpu_channel", "memory_channel"}
      [] OTHER -> {}

(***************************************************************************)
(* State.                                                                  *)
(***************************************************************************)
VARIABLES
    cmd,        \* the command last invoked
    args,       \* its arguments, as the handler receives them
    pc,         \* "idle", "rejected" (arguments did not deserialize),
                \* a position inside an async handler, or "done"
    i,          \* the loop variable of an async handler
    result,     \* what the handler returned
    response,   \* what the front end receives for the call
    sent,       \* per channel, the values whose send succeeded
    observed,   \* per channel, the values delivered to the front end
    rxOpen,     \* per channel, whether the front end still holds the receiver
    sendLog,    \* the channels of the successful sends, in order
    attempts,   \* the channels of all send attempts, in order
    emitted     \* the events process_task emitted

vars ==
    <<cmd, args, pc, i, result, response, sent, observed, rxOpen, sendLog,
      attempts, emitted>>

NoResult == [arm |-> "None"]

NoResponse == [kind |-> "none"]

(* What the front end's invoke() promise settles to. *)
Respond(ty, r) ==
    IF r.arm = "Ok" THEN [kind |-> "resolve", payload |-> Serialize(ty, r.value)]
    ELSE [kind |-> "reject", payload |-> r.message]

Returned == pc \in {"rejected", "done"}

Begin(c, a, p, r, resp) ==
    /\ cmd' = c
    /\ args' = a
    /\ pc' = p
    /\ i' = 1
    /\ result' = r
    /\ response' = resp
    /\ sent' = [ch \in Channels |-> <<>>]
    /\ observed' = [ch \in Channels |-> <<>>]
    /\ rxOpen' = [ch \in Channels |-> TRUE]
    /\ sendLog' = <<>>
    /\ attempts' = <<>>
    /\ emitted' = <<>>

(* A synchronous handler runs to completion within the call. *)
Run(c, a, ty, r) == Begin(c, a, "done", r, Respond(ty, r))

Reject(c, w) == Begin(c, w, "rejected", NoResult, [kind |-> "reject", payload |-> "invalid args"])

Init ==
    /\ cmd = "none"
    /\ args = <<>>
    /\ pc = "idle"
    /\ i = 1
    /\ result = NoResult
    /\ response = NoResponse
    /\ sent = [ch \in Channels |-> <<>>]
    /\ observed = [ch \in Channels |-> <<>>]
    /\ rxOpen = [ch \in Channels |-> TRUE]
    /\ sendLog = <<>>
    /\ attempts = <<>>
    /\ emitted = <<>>

InvokeGetUser ==
    /\ pc = "idle"
    /\ \E user_id \in {0, 1, 7} :
           Run("get_user", [user_id |-> user_id], "User", Ok(get_user(user_id)))

InvokeCreateUser ==
    /\ pc = "idle"
    /\ \E w \in UserWires :
           IF Deserializable("User", w)
           THEN Run("create_user", [user |-> Deserialize("User", w)], "User",
                    create_user(Deserialize("User", w)))
           ELSE Reject("create_user", w)

InvokeSearchProducts ==
    /\ pc = "idle"
    /\ \E query \in Queries, limit \in Limits :
           Run("search_products", [query |-> query, limit |-> limit], "Vec<Product>",
               Ok(search_products(query, limit)))

InvokeUpdateOrderStatus ==
    /\ pc = "idle"
    /\ \E order_id \in {"", "ORD-1"}, tag \in StatusTags :
           IF Deserializable("OrderStatus", tag)
           THEN Run("update_order_status",
                    [order_id |-> order_id, status |-> Deserialize("OrderStatus", tag)],
                    "String",
                    update_order_status(order_id, Deserialize("OrderStatus", tag)))
           ELSE Reject("update_order_status", tag)

InvokeCreateOrder ==
    /\ pc = "idle"
    /\ \E w \in OrderWires :
           IF Deserializable("Order", w)
           THEN Run("create_order", [order |-> Deserialize("Order", w)], "Order",
                    create_order(Deserialize("Order", w)))
           ELSE Reject("create_order", w)

InvokeDivide ==
    /\ pc = "idle"
    /\ \E a \in DivideInputs, b \in DivideInputs :
           Run("divide", [a |-> a, b |-> b], "f64", divide(a, b))

(* T::validate(), the method #[derive(Validate)] generates for T. *)
Validate(t, v) ==
    CASE t = "User" -> ValidateUser(v)
      [] t = "Product" -> ValidateProduct(v)
      [] t = "Order" -> ValidateOrder(v)

ValidateSamples(t) ==
    CASE t = "User" -> UserSamples \cup {get_user(1)}
      [] t = "Product" -> ProductSamples
      [] t = "Order" -> OrderSamples

InvokeValidate ==
    /\ pc = "idle"
    /\ \E t \in {"User", "Product", "Order"} :
           \E v \in ValidateSamples(t) :
               Begin("validate", [type |-> t, value |-> v], "done",
                     Ok(Validate(t, v)), NoResponse)

(* The name serde gives member k of a declared type. *)
ExternalNameOf ==
    /\ pc = "idle"
    /\ \E crate \in Crates, t \in TypeNames :
           \E k \in 1..Len(Decl(crate, t).members) :
               Begin("rename", [crate |-> crate, type |-> t, member |-> k], "done",
                     Ok(ExternalName(Decl(crate, t), Decl(crate, t).members[k])),
                     NoResponse)

(***************************************************************************)
(* The async handlers, one action per step between two points where        *)
(* another thread can act.                                                 *)
(***************************************************************************)
InvokeProcessTask ==
    /\ pc = "idle"
    /\ \E task_id \in TaskIds :
           Begin("process_task", [task_id |-> task_id], "pt_emit", NoResult, NoResponse)

InvokeStreamLogs ==
    /\ pc = "idle"
    /\ Begin("stream_logs", <<>>, "sl_send", NoResult, NoResponse)

InvokeMonitorSystem ==
    /\ pc = "idle"
    /\ Begin("monitor_system", <<>>, "ms_cpu", NoResult, NoResponse)

(* The handler returns r: the promise settles and the handler is gone. *)
Return(r) ==
    /\ pc' = "done"
    /\ result' = r
    /\ response' = Respond("()", r)

(* Send with a failed send taken as the end of the call: the handler       *)
(* returns Ok(()).                                                         *)
SendEndingOnFailure(ch, v, next) ==
    /\ attempts' = Append(attempts, ch)
    /\ IF rxOpen[ch]
       THEN /\ sent' = [sent EXCEPT ![ch] = Append(@, v)]
            /\ sendLog' = Append(sendLog, ch)
            /\ pc' = next
            /\ UNCHANGED <<result, response>>
       ELSE /\ pc' = "done"
            /\ result' = Ok("()")
            /\ response' = [kind |-> "resolve", payload |-> "()"]
            /\ UNCHANGED <<sent, sendLog>>
    /\ UNCHANGED <<cmd, args, i, observed, rxOpen, emitted>>

(* Channel::send(v) on ch, then control passes to `next`.  The send fails  *)
(* when the front end has dropped the receiver; `?` then returns the       *)
(* error's text as the handler's Err.                                      *)
Send(ch, v, next) ==
    /\ attempts' = Append(attempts, ch)
    /\ IF rxOpen[ch]
       THEN /\ sent' = [sent EXCEPT ![ch] = Append(@, v)]
            /\ sendLog' = Append(sendLog, ch)
            /\ pc' = next
            /\ UNCHANGED <<result, response>>
       ELSE /\ \E e \in SendErrors : Return(Err(e))
            /\ UNCHANGED <<sent, sendLog>>
    /\ UNCHANGED <<cmd, args, i, observed, rxOpen, emitted>>

(* tokio::time::sleep(..).await completes and the loop goes round: the     *)
(* handler returns Ok(()) after the last round.                            *)
Sleep(rounds, next) ==
    /\ IF i = rounds
       THEN Return(Ok("()")) /\ i' = i
       ELSE pc' = next /\ i' = i + 1 /\ UNCHANGED <<result, response>>
    /\ UNCHANGED <<cmd, args, sent, observed, rxOpen, sendLog, attempts, emitted>>

LastTimestamp ==
    IF sent["channel"] = <<>> THEN 0
    ELSE sent["channel"][Len(sent["channel"])].timestamp

StreamLogsSend ==
    /\ pc = "sl_send"
    /\ \E timestamp \in LastTimestamp..MaxClock :
           Send("channel", LogEntryOf(i, timestamp), "sl_sleep")

(* StreamLogsSleep with the loop one round short. *)
StreamLogsSleepShort ==
    /\ pc = "sl_sleep"
    /\ IF i = LogRounds - 1
       THEN pc' = "done" /\ result' = Ok("()")
            /\ response' = [kind |-> "resolve", payload |-> "()"] /\ i' = i
       ELSE pc' = "sl_send" /\ i' = i + 1 /\ UNCHANGED <<result, response>>
    /\ UNCHANGED <<cmd, args, sent, observed, rxOpen, sendLog, attempts, emitted>>

StreamLogsSleep ==
    /\ pc = "sl_sleep"
    /\ Sleep(LogRounds, "sl_send")

(* MonitorSystemCpu with the send's result discarded instead of `?`. *)
MonitorSystemCpuUnchecked ==
    /\ pc = "ms_cpu"
    /\ attempts' = Append(attempts, "cpu_channel")
    /\ IF rxOpen["cpu_channel"]
       THEN /\ sent' = [sent EXCEPT !["cpu_channel"] = Append(@, Cpu(i))]
            /\ sendLog' = Append(sendLog, "cpu_channel")
       ELSE UNCHANGED <<sent, sendLog>>
    /\ pc' = "ms_memory"
    /\ UNCHANGED <<cmd, args, i, result, response, observed, rxOpen, emitted>>

MonitorSystemCpu ==
    /\ pc = "ms_cpu"
    /\ Send("cpu_channel", Cpu(i), "ms_memory")

MonitorSystemMemory ==
    /\ pc = "ms_memory"
    /\ Send("memory_channel", Memory(i), "ms_sleep")

(* MonitorSystemSleep with the loop one round long. *)
MonitorSystemSleepLong ==
    /\ pc = "ms_sleep"
    /\ IF i = MonitorRounds + 1
       THEN pc' = "done" /\ result' = Ok("()")
            /\ response' = [kind |-> "resolve", payload |-> "()"] /\ i' = i
       ELSE pc' = "ms_cpu" /\ i' = i + 1 /\ UNCHANGED <<result, response>>
    /\ UNCHANGED <<cmd, args, sent, observed, rxOpen, sendLog, attempts, emitted>>

MonitorSystemSleep ==
    /\ pc = "ms_sleep"
    /\ Sleep(MonitorRounds, "ms_cpu")

(* app.emit(..) either succeeds or fails with an error whose text `?`      *)
(* returns as the handler's Err.                                           *)
ProcessTaskEmit ==
    /\ pc = "pt_emit"
    /\ \/ /\ emitted' = Append(emitted, ProgressOf(args.task_id, i))
          /\ pc' = "pt_sleep"
          /\ UNCHANGED <<result, response>>
       \/ /\ \E e \in SendErrors : Return(Err(e))
          /\ UNCHANGED emitted
    /\ UNCHANGED <<cmd, args, i, sent, observed, rxOpen, sendLog, attempts>>

ProcessTaskSleep ==
    /\ pc = "pt_sleep"
    /\ IF i = TaskSteps
       THEN Return(Ok("Task " \o args.task_id \o " completed")) /\ i' = i
       ELSE pc' = "pt_emit" /\ i' = i + 1 /\ UNCHANGED <<result, response>>
    /\ UNCHANGED <<cmd, args, sent, observed, rxOpen, sendLog, attempts, emitted>>

(***************************************************************************)
(* The front end's side of a channel.                                      *)
(***************************************************************************)
(* The next value in flight on ch reaches the front end's handler. *)
Deliver ==
    \E ch \in ChannelsOf(cmd) :
        /\ rxOpen[ch]
        /\ Len(observed[ch]) < Len(sent[ch])
        /\ observed' = [observed EXCEPT ![ch] = Append(@, sent[ch][Len(@) + 1])]
        /\ UNCHANGED <<cmd, args, pc, i, result, response, sent, rxOpen, sendLog,
                       attempts, emitted>>

(* The front end stops observing ch while the call is in progress. *)
DropReceiver ==
    \E ch \in ChannelsOf(cmd) :
        /\ ~Returned
        /\ rxOpen[ch]
        /\ rxOpen' = [rxOpen EXCEPT ![ch] = FALSE]
        /\ UNCHANGED <<cmd, args, pc, i, result, response, sent, observed, sendLog,
                       attempts, emitted>>

(* The front end takes the settled promise and drops the call's channels;  *)
(* it is then free to make its next call.                                  *)
Settle ==
    /\ Returned
    /\ cmd' = "none"
    /\ args' = <<>>
    /\ pc' = "idle"
    /\ i' = 1
    /\ result' = NoResult
    /\ response' = NoResponse
    /\ sent' = [ch \in Channels |-> <<>>]
    /\ observed' = [ch \in Channels |-> <<>>]
    /\ rxOpen' = [ch \in Channels |-> TRUE]
    /\ sendLog' = <<>>
    /\ attempts' = <<>>
    /\ emitted' = <<>>

Next ==
    \/ InvokeGetUser
    \/ InvokeCreateUser
    \/ InvokeSearchProducts
    \/ InvokeUpdateOrderStatus
    \/ InvokeCreateOrder
    \/ InvokeDivide
    \/ InvokeValidate
    \/ ExternalNameOf
    \/ InvokeProcessTask
    \/ InvokeStreamLogs
    \/ InvokeMonitorSystem
    \/ StreamLogsSend
    \/ StreamLogsSleep
    \/ MonitorSystemCpu
    \/ MonitorSystemMemory
    \/ MonitorSystemSleep
    \/ ProcessTaskEmit
    \/ ProcessTaskSleep
    \/ Deliver
    \/ DropReceiver
    \/ Settle

Spec == Init /\ [][Next]_vars

(* The program under a front end that makes streaming calls only, with    *)
(* the handler's steps scheduled fairly: a tokio task that can run is      *)
(* eventually polled, and a sleep eventually completes.                    *)
StreamingNext ==
    \/ InvokeStreamLogs
    \/ InvokeMonitorSystem
    \/ StreamLogsSend
    \/ StreamLogsSleep
    \/ MonitorSystemCpu
    \/ MonitorSystemMemory
    \/ MonitorSystemSleep
    \/ Deliver
    \/ DropReceiver
    \/ Settle

FairSpec ==
    /\ Init
    /\ [][StreamingNext]_vars
    /\ WF_vars(StreamLogsSend)
    /\ WF_vars(StreamLogsSleep)
    /\ WF_vars(MonitorSystemCpu)
    /\ WF_vars(MonitorSystemMemory)
    /\ WF_vars(MonitorSystemSleep)

(***************************************************************************)
(* Properties.                                                             *)
(***************************************************************************)
Streaming == cmd \in {"stream_logs", "monitor_system"}

SendFailed == Len(attempts) > Len(sendLog)

IsPrefix(p, q) == Len(p) <= Len(q) /\ p = SubSeq(q, 1, Len(p))

ExpectedLogMessages ==
    <<"Log message #1", "Log message #2", "Log message #3", "Log message #4",
      "Log message #5", "Log message #6", "Log message #7", "Log message #8",
      "Log message #9", "Log message #10">>

ExpectedCpu == <<3000, 4000, 5000, 6000, 7000>>

ExpectedMemory == <<5500, 6000, 6500, 7000, 7500>>

(* C1: on each channel the values observed are the values sent on it, in   *)
(* send order: stream_logs sends log messages #1..#10 in increasing order, *)
(* monitor_system sends the cpu samples of rounds 1..5 on cpu_channel and  *)
(* the memory samples of rounds 1..5 on memory_channel, and what the front *)
(* end has observed on a channel is always a prefix of what was sent on    *)
(* it.  Nothing relates the deliveries of two channels.                    *)
C1_PerChannelFifo ==
    /\ \A ch \in Channels : IsPrefix(observed[ch], sent[ch])
    /\ cmd = "stream_logs" =>
          IsPrefix([k \in 1..Len(sent["channel"]) |-> sent["channel"][k].message],
                   ExpectedLogMessages)
    /\ cmd = "monitor_system" =>
          /\ IsPrefix(sent["cpu_channel"], ExpectedCpu)
          /\ IsPrefix(sent["memory_channel"], ExpectedMemory)

(* All five memory samples are observed before the first cpu sample. *)
C1_Witness ==
    /\ cmd = "monitor_system"
    /\ pc = "done"
    /\ observed["memory_channel"] = ExpectedMemory
    /\ observed["cpu_channel"] = <<>>
    /\ sent["cpu_channel"] = ExpectedCpu

(* C2 as stated: a producer whose send found the receiver dropped returns  *)
(* Ok.                                                                     *)
C2_DroppedReceiverIsSuccess ==
    (Streaming /\ pc = "done" /\ SendFailed) => result.arm = "Ok"

(* C2 as amended: a producer whose send found the receiver dropped returns *)
(* Err carrying the send error's text, and returns Ok exactly when every   *)
(* send of the call succeeded.                                             *)
C2_DroppedReceiverIsFailure ==
    (Streaming /\ pc = "done") =>
        /\ result.arm = "Err" <=> SendFailed
        /\ result.arm = "Ok" <=> ~SendFailed
        /\ result.arm = "Err" =>
              /\ result.message \in SendErrors
              /\ response = [kind |-> "reject", payload |-> result.message]

C2_Witness ==
    /\ cmd = "monitor_system"
    /\ pc = "done"
    /\ SendFailed
    /\ attempts[Len(attempts)] = "memory_channel"
    /\ result.arm = "Err"

(* C3: once a send of the call has failed the producer attempts no further *)
(* send on any channel of the call: the failed attempt is the last one,    *)
(* the handler has returned, and no step adds an attempt.                  *)
C3_StopsAfterFailedSend ==
    /\ [](Streaming /\ SendFailed =>
            /\ pc = "done"
            /\ Len(attempts) = Len(sendLog) + 1
            /\ IsPrefix(sendLog, attempts))
    /\ [][Streaming /\ SendFailed => attempts' = attempts \/ cmd' = "none"]_vars

(* The cpu send of round 3 failed; the memory send of round 3 was never    *)
(* attempted.                                                              *)
C3_Witness ==
    /\ cmd = "monitor_system"
    /\ SendFailed
    /\ attempts = <<"cpu_channel", "memory_channel", "cpu_channel",
                    "memory_channel", "cpu_channel">>

Fallible ==
    {"create_user", "update_order_status", "create_order", "process_task",
     "stream_logs", "monitor_system", "divide"}

IsZero(x) == x.class = "finite" /\ x.mag = 0

(* C4: a fallible command returns exactly one of Ok(value) and             *)
(* Err(message); the message is a non-empty string; divide fails exactly   *)
(* when b is zero, create_user exactly when user_name is empty,            *)
(* create_order exactly when products is empty, each with its own message; *)
(* update_order_status never fails; the async commands fail only with the  *)
(* text of a send or emit error.                                           *)
C4_ExactlyOneArm ==
    (cmd \in Fallible /\ pc = "done") =>
        /\ \/ result.arm = "Ok" /\ DOMAIN result = {"arm", "value"}
           \/ result.arm = "Err" /\ DOMAIN result = {"arm", "message"}
        /\ result.arm = "Err" => Len(result.message) > 0
        /\ response.kind = (IF result.arm = "Ok" THEN "resolve" ELSE "reject")
        /\ cmd = "divide" =>
              /\ result.arm = "Err" <=> IsZero(args.b)
              /\ result.arm = "Err" => result.message = "Division by zero"
        /\ cmd = "create_user" =>
              /\ result.arm = "Err" <=> args.user.user_name = ""
              /\ result.arm = "Err" => result.message = "Username cannot be empty"
        /\ cmd = "create_order" =>
              /\ result.arm = "Err" <=> args.order.products = <<>>
              /\ result.arm = "Err" =>
                    result.message = "Order must contain at least one product"
        /\ cmd = "update_order_status" => result.arm = "Ok"
        /\ cmd \in {"process_task", "stream_logs", "monitor_system"} =>
              (result.arm = "Err" => result.message \in SendErrors)

(* divide(1.0, -0.0) fails. *)
C4_Witness ==
    /\ cmd = "divide"
    /\ pc = "done"
    /\ args.b = Finite(TRUE, 0)
    /\ result = [arm |-> "Err", message |-> "Division by zero"]

(* C5: a streaming call eventually returns; it returns Ok only after all   *)
(* 10 log entries, or all 5 cpu and 5 memory samples, have been sent; and  *)
(* no value is sent on a channel of the call after it has returned.        *)
C5_TerminatesByReturn ==
    /\ [](Streaming /\ pc = "done" /\ result.arm = "Ok" =>
            IF cmd = "stream_logs" THEN Len(sent["channel"]) = 10
            ELSE Len(sent["cpu_channel"]) = 5 /\ Len(sent["memory_channel"]) = 5)
    /\ [][Streaming /\ pc = "done" =>
            (sent' = sent /\ attempts' = attempts) \/ cmd' = "none"]_vars
    /\ [](Streaming => <>(pc = "done"))

C5_Witness ==
    /\ cmd = "stream_logs"
    /\ pc = "done"
    /\ result.arm = "Ok"
    /\ Len(sent["channel"]) = 10
    /\ Len(observed["channel"]) < 10

RECURSIVE ViolatedInProducts(_)
ViolatedInProducts(ps) ==
    IF ps = <<>> THEN 0
    ELSE Cardinality(ValidateProduct(Head(ps))) + ViolatedInProducts(Tail(ps))

(* The constraints an Order value violates anywhere: on its own members,   *)
(* on its user and on each of its products.                                *)
ViolatedIn(o) ==
    Cardinality(Check(Len(o.order_id) >= 1, "order_id", ""))
    + Cardinality(Check(Len(o.products) >= 1, "products", ""))
    + Cardinality(Check(o.total_amount >= 1, "total_amount", ""))
    + Cardinality(ValidateUser(o.user))
    + ViolatedInProducts(o.products)

(* C6: validating an Order reports one failure per violated constraint of  *)
(* orderId, products and totalAmount and per violated constraint of the    *)
(* nested user and of each element of products; the result is empty        *)
(* exactly when no constraint anywhere in the value is violated.           *)
C6_NestedValidation ==
    (cmd = "validate" /\ pc = "done" /\ args.type = "Order") =>
        /\ Cardinality(result.value) = ViolatedIn(args.value)
        /\ result.value = {} <=> ViolatedIn(args.value) = 0

ExternalUser == {"userId", "userName", "email", "isActive"}

(* C7: internal_field never appears in the external representation: a User *)
(* returned by get_user or create_user, and the user inside the Order      *)
(* create_order returns, reach the front end with exactly the members      *)
(* userId, userName, email, isActive; no validation failure names          *)
(* internal_field; a User is accepted as input without an internal_field   *)
(* member, and the member is never read from the input.                    *)
C7_SkippedFieldNeverExternal ==
    /\ (cmd \in {"get_user", "create_user"} /\ pc = "done" /\ response.kind = "resolve")
          => DOMAIN response.payload = ExternalUser
    /\ (cmd = "create_order" /\ pc = "done" /\ response.kind = "resolve")
          => DOMAIN response.payload.user = ExternalUser
    /\ (cmd = "validate" /\ pc = "done")
          => \A f \in result.value : f.field # "internal_field"
    /\ (cmd = "create_user" /\ pc = "rejected") => ~(ExternalUser \subseteq DOMAIN args)
    /\ (cmd = "create_user" /\ pc = "done") => args.user.internal_field = ""

(* get_user's value holds a non-empty internal_field; the front end gets   *)
(* a record without it.                                                    *)
C7_Witness ==
    /\ cmd = "get_user"
    /\ pc = "done"
    /\ result.value.internal_field # ""
    /\ response.kind = "resolve"
    /\ response.payload["userId"] = 7

ExpectedNames ==
    [User |-> <<"userId", "userName", "email", "isActive", "internalField">>,
     Product |-> <<"productId", "name", "price", "in_stock">>,
     OrderStatus |-> <<"PENDING", "PROCESSING", "SHIPPED", "DELIVERED", "CANCELLED">>,
     PaymentMethod |-> <<"credit_card", "paypal", "bank_transfer">>,
     Order |-> <<"orderId", "user", "products", "status", "paymentMethod", "totalAmount">>,
     Settings |-> <<"appName", "version", "features", "theme">>,
     ProgressUpdate |-> <<"taskId", "progress", "message">>,
     LogEntry |-> <<"timestamp", "level", "message">>]

(* C8: the external name of a field or variant is its rename override when *)
(* it has one and otherwise the container's convention applied to the      *)
(* declared name: PaymentMethod's tags are credit_card, paypal,            *)
(* bank_transfer; OrderStatus's are PENDING, PROCESSING, SHIPPED,          *)
(* DELIVERED, CANCELLED; Product.id is productId and Product.in_stock      *)
(* stays in_stock; camelCase containers map user_id to userId; and the     *)
(* names of one type are pairwise distinct.                                *)
C8_EffectiveExternalName ==
    (cmd = "rename" /\ pc = "done") =>
        /\ result.value = ExpectedNames[args.type][args.member]
        /\ \A k \in 1..Len(Decl(args.crate, args.type).members) :
              k # args.member =>
                 ExternalName(Decl(args.crate, args.type),
                              Decl(args.crate, args.type).members[k]) # result.value

C8_Witness ==
    /\ cmd = "rename"
    /\ pc = "done"
    /\ args = [crate |-> "ts", type |-> "PaymentMethod", member |-> 3]
    /\ result.value = "bank_transfer"

(* C9: in monitor_system the two channels advance in lock-step: the number *)
(* of values sent on cpu_channel exceeds the number sent on memory_channel *)
(* by 0 or 1, the sends alternate cpu, memory, cpu, ..., and neither count *)
(* exceeds 5.                                                              *)
C9_LockStep ==
    cmd = "monitor_system" =>
        /\ Len(sent["cpu_channel"]) - Len(sent["memory_channel"]) \in {0, 1}
        /\ Len(sent["cpu_channel"]) <= 5
        /\ Len(sent["memory_channel"]) <= 5
        /\ Len(sendLog) = Len(sent["cpu_channel"]) + Len(sent["memory_channel"])
        /\ \A k \in 1..Len(sendLog) :
              sendLog[k] = (IF k % 2 = 1 THEN "cpu_channel" ELSE "memory_channel")

C9_Witness ==
    /\ cmd = "monitor_system"
    /\ Len(sent["cpu_channel"]) = 5
    /\ Len(sent["memory_channel"]) = 4

(* C10: search_products returns the first min(2, limit) of its two         *)
(* products (ids 1 then 2) for a non-negative limit, both for an absent    *)
(* limit, and both for a negative limit; the result is never longer than 2 *)
(* and is empty only when limit is 0.                                      *)
C10_SearchProductsPrefix ==
    (cmd = "search_products" /\ pc = "done") =>
        LET n == Len(result.value)
            limit == args.limit
        IN  /\ limit = <<>> => n = 2
            /\ limit # <<>> =>
                  n = (IF limit[1] < 0 \/ limit[1] >= 2 THEN 2 ELSE limit[1])
            /\ n <= 2
            /\ n = 0 <=> limit = <<0>>
            /\ \A k \in 1..n : result.value[k].id = k

C10_Witness ==
    /\ cmd = "search_products"
    /\ pc = "done"
    /\ args.limit = <<-1>>
    /\ Len(result.value) = 2

====
